---- MODULE Spec2Model ----
(***************************************************************************)
(* Block-ingestion pipeline of the ilxd full node: the coordinator         *)
(* (Server.handleIncomingBlock / processBlock / requestBlock and the       *)
(* goroutine that waits for the consensus callback) and the chain-service  *)
(* request handlers.  A goroutine is a record with a program counter; the  *)
(* goroutines alive form a bag.  The three sync.RWMutex locks have Go's    *)
(* semantics: not re-entrant, and a waiting writer blocks new readers.     *)
(***************************************************************************)
EXTENDS Naturals, Integers, Sequences, FiniteSets, Bags, TLC

\* ------------------------------------------------------------------ bounds
\* Number of external invocations (handleIncomingBlock, requestBlock).
MaxCalls == 2
\* Number of peer answers that fail (transport error, error response, wrong
\* number of transactions) over a run.
MaxFaults == 1
\* Transactions in a served block, indices in a GetBlockTxs request.
MaxTxs == 3
MaxIndexes == 2
\* Streams opened to the chain service, requests written to one stream.
MaxStreams == 2
MaxRequests == 2
\* Bits of the unsigned index type.  The code's type is uint32; the model keeps
\* the wrap-around arithmetic at a width that TLC's 32-bit integers can hold.
UintBits == 3

\* ---------------------------------------------------------------- universe
Peers == {"A", "B"}
BlockIDs == {1, 2, 3}

\* Header fields of the blocks of the universe: 1 and 3 compete at the first
\* height above genesis, 2 is the child of 1.  Block 3 breaks a consensus rule
\* other than the transaction root.  Block 4 is a second child of 1; peers
\* relay it only in the specification that starts with orphans stored.
Siblings == {2, 4}
AllIDs == BlockIDs \cup Siblings
Height(id) == IF id \in Siblings THEN 2 ELSE 1
Parent(id) == IF id \in Siblings THEN 1 ELSE 0
Sound(id) == id # 3

\* A block as the coordinator holds it: the header's BlockID and whether the
\* transaction list matches the header's txRoot ("full") or not ("collide":
\* a mempool collision or an unfilled placeholder).
Bodies == {"full", "collide"}
Blocks == [id : BlockIDs, body : Bodies]
NoBlk == [id |-> 0, body |-> "none"]

VARIABLES
    chain,             \* connected chain above genesis, a sequence of BlockIDs
    orphanBlocks,      \* Server.orphanBlocks
    activeInventory,   \* Server.activeInventory
    inflightRequests,  \* Server.inflightRequests
    orphanLock,        \* Server.orphanLock
    inventoryLock,     \* Server.inventoryLock
    inflightLock,      \* Server.inflightLock
    thr,               \* goroutines alive: handler calls, waiters, timers
    calls,             \* external invocations made so far
    cancelled,         \* Server.ctx is done
    crashed,           \* the process died of an unrecovered panic
    banscore,          \* per peer: behavioral and transient score
    connectCalls,      \* history: ConnectBlock invocations per BlockID
    newBlockCalls,     \* history: engine.NewBlock invocations per BlockID
    getBlockCalls,     \* history: GetBlock RPCs issued per BlockID
    faults,            \* failed peer answers so far
    checkedOK,         \* history: blocks for which CheckConnectBlock returned nil
    request,           \* chain service: the GetBlockTxs request being served
    response,          \* chain service: what the handler produced for it
    exchange,          \* chain service: one request from its sending to its use
    fetch,             \* one call of Server.fetchBlockTxids: inputs and outcome
    decode,            \* one call of Server.decodeXthinner: inputs and outcome
    streams,           \* chain service: the streams peers opened to this node
    shutdown,          \* one call of Server.Close: position and collaborators
    insertCalls,       \* history: insertions into activeInventory per BlockID
    finalizedCalls     \* history: StatusFinalized notifications per BlockID

vars == <<chain, orphanBlocks, activeInventory, inflightRequests, orphanLock,
          inventoryLock, inflightLock, thr, calls, cancelled, crashed, banscore,
          connectCalls, newBlockCalls, getBlockCalls, faults, checkedOK,
          request, response, exchange, fetch, decode, streams, shutdown,
          insertCalls, finalizedCalls>>

\* ------------------------------------------------------------------- locks
\* sync.RWMutex.  w: "free", "held" by a writer, or "waiting": a goroutine has
\* called Lock() and waits for the readers to leave.  r: read locks held.
FreeLock == [w |-> "free", r |-> 0]
\* RLock() goes through unless a writer holds the lock or waits for it.
CanRead(l) == l.w = "free"
\* Lock() goes through when no other writer has the lock or waits for it and
\* every reader has left; with readers inside, the caller first announces
\* itself (which stops new readers) and then waits.  g.ann: goroutine g is
\* the one that waits.
CanWrite(l, g) == l.r = 0 /\ (l.w = "free" \/ (l.w = "waiting" /\ g.ann))
MustAnnounce(l, g) == l.w = "free" /\ l.r > 0
RLocked(l) == [l EXCEPT !.r = @ + 1]
Announced(l) == [l EXCEPT !.w = "waiting"]
Held(l) == [l EXCEPT !.w = "held"]
Released(l) == [l EXCEPT !.w = "free"]

\* -------------------------------------------------------------- goroutines
\* A goroutine that has ended.
Idle == [pc |-> "idle", kind |-> "none", blk |-> NoBlk, peer |-> "none",
         recheck |-> FALSE, reqid |-> 0, ann |-> FALSE]
Running == BagToSet(thr)
Without(g) == thr (-) SetToBag({g})
With(bag, g) == IF g = Idle THEN bag ELSE bag (+) SetToBag({g})

\* time.Now(): the model's clock advances with every external invocation.
Now == calls

\* ------------------------------------------------------------ collaborators
\* Blockchain.CheckConnectBlock: nil, OrphanBlockError or RuleError(kind);
\* a pure function of the block and the current tip.
TipHeight == Len(chain)
TipID == IF chain = <<>> THEN 0 ELSE chain[Len(chain)]
CheckConnectBlock(blk) ==
    IF Height(blk.id) > TipHeight + 1 THEN "OrphanBlockError"
    ELSE IF Height(blk.id) # TipHeight + 1 \/ Parent(blk.id) # TipID
        THEN "ErrDoesNotConnect"
    ELSE IF blk.body # "full" THEN "ErrInvalidTxRoot"
    ELSE IF ~Sound(blk.id) THEN "ErrRule"
    ELSE "nil"
RuleErrors == {"ErrDoesNotConnect", "ErrInvalidTxRoot", "ErrRule"}

\* Blockchain.ConnectBlock: appends the block when it extends the tip and
\* returns an error otherwise.
ConnectBlock(blk) ==
    IF Height(blk.id) = TipHeight + 1 /\ Parent(blk.id) = TipID
    THEN Append(chain, blk.id) ELSE chain

\* Network.IncreaseBanscore(peer, behavioral, transient).
IncreaseBanscore(bs, p, behavioral, transient) ==
    [bs EXCEPT ![p] = [b |-> @.b + behavioral, t |-> @.t + transient]]

\* A client that lets a wrong number of transactions pass without a charge.
GetBlockTxsNoPenalty(answer) == 0

\* ChainService.GetBlockTxs, client side: what the answer of peer p costs p.
\* "ok": as many transactions as indices; "short": error None but another
\* number of transactions; "err": transport error or error response.
RpcAnswers == {"ok", "short", "err"}
GetBlockTxsPenalty(answer) == IF answer = "short" THEN 50 ELSE 0

\* --------------------------------------------------------- handleIncomingBlock
\* Server.decodeXthinner: the decoded block and the ban-score deltas.  The
\* mempool decoder reports missing indices or not; missing transactions are
\* asked from the relaying peer, then from the connected peers in turn.
\* fs: the connected peers asked in the loop whose answer failed; hs: those
\* of them that sent a wrong number of transactions (GetBlockTxs charges 50).
\* With every peer failed the block keeps its unfilled placeholders.
DecodeResults(p) ==
    LET none == [q \in Peers |-> 0]
        direct == {[body |-> b, delta |-> none, failed |-> 0] : b \in Bodies}
        repaired(a, fs, hs, b) ==
            [body |-> b,
             delta |-> [q \in Peers |->
                 (IF q = p THEN 34 + GetBlockTxsPenalty(a) ELSE 0)
                 + (IF q \in hs THEN GetBlockTxsPenalty("short") ELSE 0)],
             failed |-> 1 + Cardinality(fs)]
    IN  direct
        \cup UNION {UNION {{repaired(a, fs, hs, b) :
                               a \in {"short", "err"},
                               b \in {c \in Bodies : c = "full" => fs # Peers}} :
                            hs \in SUBSET fs} :
                     fs \in SUBSET Peers}

AddDeltas(bs, delta) ==
    [q \in Peers |-> [b |-> bs[q].b + delta[q], t |-> bs[q].t]]

maps == <<orphanBlocks, activeInventory, inflightRequests>>
locks == <<orphanLock, inventoryLock, inflightLock>>
history == <<connectCalls, newBlockCalls, getBlockCalls, insertCalls,
             finalizedCalls>>
side == <<decode, streams, shutdown>>
rpc == <<request, response, exchange, fetch, side>>

\* ---------------------------------------------------------------- processBlock
\* Where a processBlock call returns to: handleIncomingBlock returns to the
\* network, requestBlock goes on to schedule its timer, the waiter goroutine
\* goes on to release orphanLock.
AfterReturn(g) ==
    CASE g.kind = "request" -> [g EXCEPT !.pc = "rb_timer"]
      [] g.kind = "waiter" -> [g EXCEPT !.pc = "w_unlock"]
      [] OTHER -> Idle

\* A processBlock whose switch lets an orphan fall through to the submission.
DispatchOrphanFallsThrough(err, recheck) ==
    CASE err \in RuleErrors /\ recheck -> "recheckFailed"
      [] err = "ErrInvalidTxRoot" -> "repair"
      [] err = "ErrDoesNotConnect" -> "race"
      [] err \in RuleErrors -> "ban"
      [] err \in {"nil", "OrphanBlockError"} -> "submit"
      [] OTHER -> "return"

\* The switch on the error of CheckConnectBlock (lines 248-301): the branch
\* processBlock takes.
Dispatch(err, recheck) ==
    CASE err = "OrphanBlockError" -> "orphan"
      [] err \in RuleErrors /\ recheck -> "recheckFailed"
      [] err = "ErrInvalidTxRoot" -> "repair"
      [] err = "ErrDoesNotConnect" -> "race"
      [] err \in RuleErrors -> "ban"
      [] err = "nil" -> "submit"
      [] OTHER -> "return"

\* A processBlock that goes to the submission without the insertion.
ProcessBlockSkipsInsert(g) ==
    LET branch == Dispatch(CheckConnectBlock(g.blk), g.recheck)
    IN  CASE branch = "orphan" -> [g EXCEPT !.pc = "pb_orphan"]
          [] branch = "repair" -> [g EXCEPT !.pc = "pb_repair"]
          [] branch = "submit" -> [g EXCEPT !.pc = "pb_unorphan"]
          [] OTHER -> AfterReturn(g)

\* Lines 246-301, the entry of processBlock up to its first access to a map:
\* CheckConnectBlock against the current tip, the ban score of the branch, and
\* the goroutine's next position.  The entry runs in the step that calls
\* processBlock: what a goroutine does between the call and the check touches
\* nothing another goroutine reads.
ProcessBlock(g) ==
    LET branch == Dispatch(CheckConnectBlock(g.blk), g.recheck)
    IN  CASE branch = "orphan" -> [g EXCEPT !.pc = "pb_orphan"]
          [] branch = "repair" -> [g EXCEPT !.pc = "pb_repair"]
          [] branch = "submit" -> [g EXCEPT !.pc = "pb_insert"]
          [] OTHER -> AfterReturn(g)
\* A processBlock that charges an invalid block like a height race.
ChargeBanAsRace(bs, g) ==
    LET branch == Dispatch(CheckConnectBlock(g.blk), g.recheck)
    IN  CASE branch = "recheckFailed" -> IncreaseBanscore(bs, g.peer, 34, 0)
          [] branch \in {"race", "ban"} -> IncreaseBanscore(bs, g.peer, 0, 10)
          [] OTHER -> bs
\* A processBlock that charges a height race on the behavioral score.
ChargeRaceAsBehavioral(bs, g) ==
    LET branch == Dispatch(CheckConnectBlock(g.blk), g.recheck)
    IN  CASE branch = "recheckFailed" -> IncreaseBanscore(bs, g.peer, 34, 0)
          [] branch = "race" -> IncreaseBanscore(bs, g.peer, 10, 0)
          [] branch = "ban" -> IncreaseBanscore(bs, g.peer, 101, 0)
          [] OTHER -> bs
Charge(bs, g) ==
    LET branch == Dispatch(CheckConnectBlock(g.blk), g.recheck)
    IN  CASE branch = "recheckFailed" -> IncreaseBanscore(bs, g.peer, 34, 0)
          [] branch = "race" -> IncreaseBanscore(bs, g.peer, 0, 10)
          [] branch = "ban" -> IncreaseBanscore(bs, g.peer, 101, 0)
          [] OTHER -> bs
\* The goroutines `others` plus g after the entry of processBlock.
Enter(others, g, bs) ==
    /\ thr' = With(others, ProcessBlock(g))
    /\ banscore' = Charge(bs, g)
    /\ checkedOK' = IF CheckConnectBlock(g.blk) = "nil"
                    THEN checkedOK \cup {g.blk} ELSE checkedOK

\* Line 243: a goroutine that is about to call processBlock makes the call.
ProcessBlockEntry(g) ==
    /\ ~crashed
    /\ g.pc = "pb_check"
    /\ Enter(Without(g), g, banscore)
    /\ UNCHANGED <<rpc, chain, maps, locks, calls, cancelled, crashed, history,
                   faults>>

\* Server.handleIncomingBlock (lines 235-244): decode, then processBlock.
HandleIncomingBlock ==
    /\ ~crashed /\ ~cancelled
    /\ calls < MaxCalls
    /\ \E id \in BlockIDs, p \in Peers :
         \E d \in DecodeResults(p) :
           /\ faults + d.failed <= MaxFaults
           /\ faults' = faults + d.failed
           /\ Enter(thr, [pc |-> "pb_check", kind |-> "handle",
                          blk |-> [id |-> id, body |-> d.body], peer |-> p,
                          recheck |-> FALSE, reqid |-> 0, ann |-> FALSE],
                    AddDeltas(banscore, d.delta))
    /\ calls' = calls + 1
    /\ UNCHANGED <<rpc, chain, maps, locks, cancelled, crashed, history>>

\* Lines 255-262: store the orphan under orphanLock and return the error.
ProcessBlockOrphan(g) ==
    /\ ~crashed
    /\ g.pc = "pb_orphan"
    /\ CanWrite(orphanLock, g)
    /\ orphanBlocks' = [id \in DOMAIN orphanBlocks \cup {g.blk.id} |->
           IF id = g.blk.id
           THEN [blk |-> g.blk, relayingPeer |-> g.peer, firstSeen |-> Now]
           ELSE orphanBlocks[id]]
    /\ thr' = With(Without(g), AfterReturn(g))
    /\ UNCHANGED <<rpc, chain, activeInventory, inflightRequests, locks, calls,
                   cancelled, crashed, banscore, history, faults, checkedOK>>

\* Lines 272-286, Server.fetchBlockTxids as processBlock uses it.  The
\* relaying peer answers GetBlockTxids and GetBlockTxs; on success the block
\* is patched in place and processBlock recurses with recheck = true.  On
\* failure the peer is charged 34 and the connected peers are tried with the
\* block variable the failed call left nil: with any peer connected the first
\* iteration dereferences nil and the process panics.
ProcessBlockRepair(g) ==
    /\ ~crashed
    /\ g.pc = "pb_repair"
    /\ \E a \in RpcAnswers, b \in Bodies, connected \in BOOLEAN :
         LET patched == [id |-> g.blk.id, body |-> b]
             cost == IncreaseBanscore(banscore, g.peer, GetBlockTxsPenalty(a), 0)
         IN  IF a = "ok"
             THEN /\ Enter(Without(g), [g EXCEPT !.blk = patched, !.recheck = TRUE],
                           banscore)
                  \* blk.Transactions is patched in place: a stored orphan
                  \* that the waiter re-processes is the same object
                  /\ orphanBlocks' =
                        IF g.kind = "waiter" /\ g.blk.id \in DOMAIN orphanBlocks
                        THEN [orphanBlocks EXCEPT ![g.blk.id].blk = patched]
                        ELSE orphanBlocks
                  /\ UNCHANGED <<crashed, faults>>
             ELSE /\ faults < MaxFaults
                  /\ faults' = faults + 1
                  /\ banscore' = IncreaseBanscore(cost, g.peer, 34, 0)
                  /\ crashed' = connected
                  /\ thr' = With(Without(g), AfterReturn(g))
                  /\ UNCHANGED <<orphanBlocks, checkedOK>>
    /\ UNCHANGED <<rpc, chain, activeInventory, inflightRequests, locks, calls,
                   cancelled, history>>

\* Lines 307-309: insert into activeInventory under inventoryLock.
ProcessBlockInsert(g) ==
    /\ ~crashed
    /\ g.pc = "pb_insert"
    /\ IF CanWrite(inventoryLock, g)
       THEN /\ activeInventory' =
                  [id \in DOMAIN activeInventory \cup {g.blk.id} |->
                      IF id = g.blk.id THEN g.blk ELSE activeInventory[id]]
            /\ insertCalls' = [insertCalls EXCEPT ![g.blk.id] = @ + 1]
            /\ inventoryLock' = Released(inventoryLock)
            /\ thr' = With(Without(g), [g EXCEPT !.pc = "pb_unorphan", !.ann = FALSE])
       ELSE /\ MustAnnounce(inventoryLock, g)
            /\ inventoryLock' = Announced(inventoryLock)
            /\ thr' = With(Without(g), [g EXCEPT !.ann = TRUE])
            /\ UNCHANGED <<activeInventory, insertCalls>>
    /\ UNCHANGED <<rpc, chain, orphanBlocks, inflightRequests, orphanLock,
                   inflightLock, calls, cancelled, crashed, banscore,
                   connectCalls, newBlockCalls, getBlockCalls, finalizedCalls,
                   faults, checkedOK>>

\* Lines 311-350: delete from orphanBlocks under orphanLock, call
\* engine.NewBlock with a fresh callback channel, start the waiter goroutine
\* on that channel and return nil.
ProcessBlockSubmit(g) ==
    /\ ~crashed
    /\ g.pc = "pb_unorphan"
    /\ CanWrite(orphanLock, g)
    /\ orphanBlocks' = [id \in DOMAIN orphanBlocks \ {g.blk.id} |-> orphanBlocks[id]]
    /\ newBlockCalls' = [newBlockCalls EXCEPT ![g.blk.id] = @ + 1]
    /\ thr' = With(With(Without(g), AfterReturn(g)),
                   [pc |-> "w_select", kind |-> "waiter", blk |-> g.blk,
                    peer |-> "none", recheck |-> FALSE, reqid |-> 0,
                    ann |-> FALSE])
    /\ UNCHANGED <<rpc, chain, activeInventory, inflightRequests, locks, calls,
                   cancelled, crashed, banscore, connectCalls, getBlockCalls,
                   insertCalls, finalizedCalls, faults, checkedOK>>

\* ------------------------------------------------------------ waiter goroutine
\* A waiter that connects the block whatever the status is.
CallbackStatusConnectsRejected(g) ==
    /\ ~crashed
    /\ g.pc = "w_select"
    /\ \E status \in {"StatusFinalized", "StatusRejected"} :
         /\ finalizedCalls' = IF status = "StatusFinalized"
                              THEN [finalizedCalls EXCEPT ![g.blk.id] = @ + 1]
                              ELSE finalizedCalls
         /\ chain' = ConnectBlock(g.blk)
         /\ connectCalls' = [connectCalls EXCEPT ![g.blk.id] = @ + 1]
    /\ thr' = With(Without(g), [g EXCEPT !.pc = "w_delete"])
    /\ UNCHANGED <<rpc, maps, locks, calls, cancelled, crashed, banscore,
                   newBlockCalls, getBlockCalls, insertCalls, faults, checkedOK>>

\* Lines 319-331: the consensus engine sends the status of the submission on
\* the callback channel of this waiter; on StatusFinalized the waiter calls
\* ConnectBlock, whose error is only logged.
CallbackStatus(g) ==
    /\ ~crashed
    /\ g.pc = "w_select"
    /\ \E status \in {"StatusFinalized", "StatusRejected"} :
         IF status = "StatusFinalized"
         THEN /\ finalizedCalls' = [finalizedCalls EXCEPT ![g.blk.id] = @ + 1]
              /\ chain' = ConnectBlock(g.blk)
              /\ connectCalls' = [connectCalls EXCEPT ![g.blk.id] = @ + 1]
         ELSE UNCHANGED <<chain, connectCalls, finalizedCalls>>
    /\ thr' = With(Without(g), [g EXCEPT !.pc = "w_delete"])
    /\ UNCHANGED <<rpc, maps, locks, calls, cancelled, crashed, banscore,
                   newBlockCalls, getBlockCalls, insertCalls, faults, checkedOK>>

\* A waiter that cleans its activeInventory entry up when the context is done.
WaiterCtxDoneDeletes(g) ==
    /\ ~crashed
    /\ g.pc = "w_select"
    /\ cancelled
    /\ thr' = Without(g)
    /\ activeInventory' = [id \in DOMAIN activeInventory \ {g.blk.id} |->
                              activeInventory[id]]
    /\ UNCHANGED <<rpc, chain, orphanBlocks, inflightRequests, locks, calls,
                   cancelled, crashed, banscore, history, faults, checkedOK>>
\* Lines 346-347: the root context is done; the waiter returns.
WaiterCtxDone(g) ==
    /\ ~crashed
    /\ g.pc = "w_select"
    /\ cancelled
    /\ thr' = Without(g)
    /\ UNCHANGED <<rpc, chain, maps, locks, calls, cancelled, crashed, banscore,
                   history, faults, checkedOK>>

\* Lines 333-335: delete from activeInventory under inventoryLock.
WaiterDelete(g) ==
    /\ ~crashed
    /\ g.pc = "w_delete"
    /\ IF CanWrite(inventoryLock, g)
       THEN /\ activeInventory' = [id \in DOMAIN activeInventory \ {g.blk.id} |->
                                      activeInventory[id]]
            /\ inventoryLock' = Released(inventoryLock)
            /\ thr' = With(Without(g), [g EXCEPT !.pc = "w_orphans", !.ann = FALSE])
       ELSE /\ MustAnnounce(inventoryLock, g)
            /\ inventoryLock' = Announced(inventoryLock)
            /\ thr' = With(Without(g), [g EXCEPT !.ann = TRUE])
            /\ UNCHANGED activeInventory
    /\ UNCHANGED <<rpc, chain, orphanBlocks, inflightRequests, orphanLock,
                   inflightLock, calls, cancelled, crashed, banscore, history,
                   faults, checkedOK>>

\* Lines 337-345: take orphanLock and look for a stored orphan one above the
\* resolved block (map order: any of them).  With one found, processBlock is
\* called for it while orphanLock stays held; with none, the lock is released.
NextOrphans(blk) ==
    {id \in DOMAIN orphanBlocks :
        Height(orphanBlocks[id].blk.id) = Height(blk.id) + 1}
\* A waiter that re-enters the orphan on behalf of another peer than the one
\* stored in its entry.
WaiterOrphansOtherPeer(g) ==
    /\ ~crashed
    /\ g.pc = "w_orphans"
    /\ CanWrite(orphanLock, g)
    /\ IF NextOrphans(g.blk) = {}
       THEN /\ thr' = Without(g)
            /\ UNCHANGED <<orphanLock, banscore, checkedOK>>
       ELSE \E id \in NextOrphans(g.blk) :
            /\ orphanLock' = Held(orphanLock)
            /\ Enter(Without(g),
                     [pc |-> "pb_check", kind |-> "waiter",
                      blk |-> orphanBlocks[id].blk,
                      peer |-> CHOOSE p \in Peers :
                                  p # orphanBlocks[id].relayingPeer,
                      recheck |-> FALSE, reqid |-> 0, ann |-> FALSE],
                     banscore)
    /\ UNCHANGED <<rpc, chain, maps, inventoryLock, inflightLock, calls, cancelled,
                   crashed, history, faults>>
\* The scan of lines 337-345 as one step of the waiter.
WaiterOrphans(g) ==
    /\ ~crashed
    /\ g.pc = "w_orphans"
    /\ CanWrite(orphanLock, g)
    /\ IF NextOrphans(g.blk) = {}
       THEN /\ thr' = Without(g)
            /\ UNCHANGED <<orphanLock, banscore, checkedOK>>
       ELSE \E id \in NextOrphans(g.blk) :
            /\ orphanLock' = Held(orphanLock)
            /\ Enter(Without(g),
                     [pc |-> "pb_check", kind |-> "waiter",
                      blk |-> orphanBlocks[id].blk,
                      peer |-> orphanBlocks[id].relayingPeer,
                      recheck |-> FALSE, reqid |-> 0, ann |-> FALSE],
                     banscore)
    /\ UNCHANGED <<rpc, chain, maps, inventoryLock, inflightLock, calls, cancelled,
                   crashed, history, faults>>

\* Line 345: processBlock returned; release orphanLock and end.
WaiterUnlock(g) ==
    /\ ~crashed
    /\ g.pc = "w_unlock"
    /\ orphanLock' = Released(orphanLock)
    /\ thr' = Without(g)
    /\ UNCHANGED <<rpc, chain, maps, inventoryLock, inflightLock, calls, cancelled,
                   crashed, banscore, history, faults, checkedOK>>

\* ---------------------------------------------------------------- requestBlock
\* The consensus engine asks for a block it has heard of (line 420).
RequestBlock ==
    /\ ~crashed /\ ~cancelled
    /\ calls < MaxCalls
    /\ \E id \in BlockIDs, p \in Peers :
         thr' = With(thr, [pc |-> "rb_check", kind |-> "request", blk |-> NoBlk,
                           peer |-> p, recheck |-> FALSE, reqid |-> id,
                           ann |-> FALSE])
    /\ calls' = calls + 1
    /\ UNCHANGED <<rpc, chain, maps, locks, cancelled, crashed, banscore, history,
                   faults, checkedOK>>

\* Lock, change the set, Unlock: lines 428-430, 434-436 and 443-445.
InflightWrite(g, set, next) ==
    IF CanWrite(inflightLock, g)
    THEN /\ inflightRequests' = set
         /\ inflightLock' = Released(inflightLock)
         /\ thr' = With(Without(g), next)
    ELSE /\ MustAnnounce(inflightLock, g)
         /\ inflightLock' = Announced(inflightLock)
         /\ thr' = With(Without(g), [g EXCEPT !.ann = TRUE])
         /\ UNCHANGED inflightRequests

\* The steps of Server.requestBlock after its entry, and of the closure it
\* hands to time.AfterFunc, by program counter:
\*   rb_check   lines 421-425  RLock, look the id up; RUnlock and return on a hit
\*   rb_rlock   line 426       RLock a second time
\*   rb_lock    lines 428-430  Lock, insert, Unlock
\*   rb_get     lines 432-440  GetBlock, then processBlock(blk, peer, false)
\*   rb_fail    lines 434-437  GetBlock failed: Lock, delete, Unlock, return
\*   rb_timer   line 442       start the 5 minute timer and return
\*   tm_fire    lines 443-445  the timer's closure: Lock, delete, Unlock
RequestBlockStep(g) ==
    /\ ~crashed
    /\ g.pc \in {"rb_check", "rb_rlock", "rb_lock", "rb_get", "rb_fail",
                 "rb_timer", "tm_fire"}
    /\ CASE g.pc = "rb_check" ->
              /\ CanRead(inflightLock)
              /\ IF g.reqid \in inflightRequests
                 THEN /\ thr' = Without(g)
                      /\ inflightLock' = inflightLock
                 ELSE /\ thr' = With(Without(g), [g EXCEPT !.pc = "rb_rlock"])
                      /\ inflightLock' = RLocked(inflightLock)
              /\ UNCHANGED <<inflightRequests, getBlockCalls, faults, banscore,
                             checkedOK>>
         [] g.pc = "rb_rlock" ->
              /\ CanRead(inflightLock)
              /\ thr' = With(Without(g), [g EXCEPT !.pc = "rb_lock"])
              /\ inflightLock' = RLocked(inflightLock)
              /\ UNCHANGED <<inflightRequests, getBlockCalls, faults, banscore,
                             checkedOK>>
         [] g.pc = "rb_lock" ->
              /\ InflightWrite(g, inflightRequests \cup {g.reqid},
                               [g EXCEPT !.pc = "rb_get", !.ann = FALSE])
              /\ UNCHANGED <<getBlockCalls, faults, banscore, checkedOK>>
         [] g.pc = "rb_get" ->
              /\ getBlockCalls' = [getBlockCalls EXCEPT ![g.reqid] = @ + 1]
              /\ \E ok \in BOOLEAN, blk \in Blocks :
                   IF ok
                   THEN /\ Enter(Without(g), [g EXCEPT !.blk = blk], banscore)
                        /\ faults' = faults
                   ELSE /\ faults < MaxFaults
                        /\ faults' = faults + 1
                        /\ thr' = With(Without(g), [g EXCEPT !.pc = "rb_fail"])
                        /\ UNCHANGED <<banscore, checkedOK>>
              /\ UNCHANGED <<inflightRequests, inflightLock>>
         [] g.pc = "rb_timer" ->
              /\ thr' = With(Without(g),
                             [Idle EXCEPT !.pc = "tm_fire", !.kind = "timer",
                                          !.reqid = g.reqid])
              /\ UNCHANGED <<inflightRequests, inflightLock, getBlockCalls,
                             faults, banscore, checkedOK>>
         [] OTHER ->  \* rb_fail, tm_fire
              /\ InflightWrite(g, inflightRequests \ {g.reqid}, Idle)
              /\ UNCHANGED <<getBlockCalls, faults, banscore, checkedOK>>
    /\ UNCHANGED <<rpc, chain, orphanBlocks, activeInventory, orphanLock,
                   inventoryLock, calls, cancelled, crashed, connectCalls,
                   newBlockCalls, insertCalls, finalizedCalls>>

\* ------------------------------------------------------------ lock scopes
\* The positions inside a processBlock call.
InProcessBlock == {"pb_check", "pb_orphan", "pb_repair", "pb_insert", "pb_unorphan"}
\* The coordinator locks goroutine g holds at its position: the waiter holds
\* orphanLock from line 337 to line 345, across the processBlock call of line
\* 341; requestBlock holds the read lock of line 421 from there on, and the
\* one of line 426 too.
Holds(g) ==
    CASE g.kind = "waiter" /\ g.pc \in InProcessBlock \cup {"w_unlock"} ->
             {"orphanLock"}
      [] g.kind = "request" /\ g.pc \in {"rb_rlock", "rb_lock"} ->
             {"inflightLock"}
      [] OTHER -> {}
\* The lock the next step of g acquires, if any.
Wants(g) ==
    CASE g.pc \in {"pb_orphan", "pb_unorphan", "w_orphans"} -> {"orphanLock"}
      [] g.pc \in {"pb_insert", "w_delete"} -> {"inventoryLock"}
      [] g.pc \in {"rb_check", "rb_rlock", "rb_lock", "rb_fail", "tm_fire"} ->
             {"inflightLock"}
      [] OTHER -> {}
\* g is in a call that may suspend: a chain-service RPC (lines 273, 432), the
\* wait for the callback (line 318), or a processBlock call, which starts
\* with CheckConnectBlock and may go on to an RPC and to engine.NewBlock.
Suspends(g) == g.pc \in InProcessBlock \cup {"rb_get", "w_select"}

\* ------------------------------------------------------------------- shutdown
\* Server.Close, line 453: cancel the root context.  The network is closed
\* next, so no further block or request arrives.
Close ==
    /\ ~crashed
    /\ ~cancelled
    /\ cancelled' = TRUE
    /\ UNCHANGED <<rpc, chain, maps, locks, thr, calls, crashed, banscore, history,
                   faults, checkedOK>>

\* ------------------------------------------------------------- chain service
\* uint32: conversion of an integer, wrapping round.
UintMod == 2 ^ UintBits
Uint(n) == n % UintMod

\* A block's transactions: position k (from 0) holds transaction k + 1, so
\* that distinct positions hold distinct transactions; 0 is a nil pointer.
BlockTransactions(n) == [k \in 1 .. n |-> k]
IndexValues == (0 .. MaxTxs) \cup {UintMod - 1}
SeqsUpTo(S, n) == UNION {[1 .. l -> S] : l \in 0 .. n}
Requests == [known : BOOLEAN, txs : {BlockTransactions(n) : n \in 0 .. MaxTxs},
             TxIndexes : SeqsUpTo(IndexValues, MaxIndexes)]
NoReq == [known |-> FALSE, txs |-> <<>>, TxIndexes |-> <<>>]
NoResp == [Error |-> "unset", Transactions |-> <<>>, fault |-> FALSE]
Panic == [Error |-> "unset", Transactions |-> <<>>, fault |-> TRUE]

\* The loop of handleGetBlockTxs (lines 298-303) from its i-th iteration with
\* the response slice filled as `out`.  Go slices count from 0, sequences
\* from 1.  An index outside a slice is a run-time panic.
RECURSIVE ServeTxs(_, _, _, _)
ServeTxs(txs, idxs, i, out) ==
    IF i > Len(idxs)
    THEN [Error |-> "None", Transactions |-> out, fault |-> FALSE]
    ELSE LET idx == idxs[i]
         IN  IF idx > Uint(Uint(Len(txs)) - 1)
             THEN [Error |-> "BadRequest", Transactions |-> <<>>, fault |-> FALSE]
             ELSE IF idx >= Len(txs) \/ idx >= Len(out)
             THEN Panic
             ELSE ServeTxs(txs, idxs, i + 1, [out EXCEPT ![idx + 1] = txs[idx + 1]])

\* ChainService.handleGetBlockTxs, lines 281-306.
handleGetBlockTxs(req) ==
    IF ~req.known
    THEN [Error |-> "NotFound", Transactions |-> <<>>, fault |-> FALSE]
    ELSE ServeTxs(req.txs, req.TxIndexes, 1, [k \in 1 .. Len(req.TxIndexes) |-> 0])

\* The chain service serves the request.
HandleGetBlockTxs ==
    /\ response = NoResp
    /\ response' = handleGetBlockTxs(request)
    /\ UNCHANGED <<chain, maps, locks, thr, calls, cancelled, crashed, banscore,
                   history, faults, checkedOK, request, exchange, fetch,
                   side>>

\* ------------------------------------------------- chain service, both sides
\* The three request kinds of the protocol (handleNewMessage, lines 231-238).
RequestKinds == {"GetBlock", "GetBlockTxids", "GetBlockTxs"}

\* The transactions of the blocks of the universe: block 1 has none, block 2
\* one, block 3 two.
Transactions(blk) == BlockTransactions(blk.id - 1)

\* Blockchain.GetBlockByID: the connected block, or an error (NoBlk).
OnChain(id) == \E k \in 1 .. Len(chain) : chain[k] = id
GetBlockByID(id) == IF OnChain(id) THEN [id |-> id, body |-> "full"] ELSE NoBlk

\* A fetcher that serves connected blocks only.
fetchBlockChainOnly(id) == GetBlockByID(id)

\* Server.fetchBlock, the FetchBlockFunc given to the chain service: under
\* inventoryLock.RLock, activeInventory first, then the chain.
fetchBlock(id) ==
    IF id \in DOMAIN activeInventory THEN activeInventory[id] ELSE GetBlockByID(id)

\* A response on the wire.  transport: SendRequest failed, nothing arrived.
NoWire == [transport |-> FALSE, Error |-> "unset", Block |-> NoBlk,
           Txids |-> <<>>, Transactions |-> <<>>]
TransportError == [NoWire EXCEPT !.transport = TRUE]

\* ChainService.handleGetBlock, lines 376-387.
handleGetBlock(id) ==
    LET blk == fetchBlock(id)
    IN  IF blk = NoBlk THEN [NoWire EXCEPT !.Error = "NotFound"]
        ELSE [NoWire EXCEPT !.Error = "None", !.Block = blk]

\* A handler that drops the error of fetchBlock.
handleGetBlockTxidsUnchecked(id) ==
    LET blk == fetchBlock(id)
    IN  [NoWire EXCEPT !.Error = "None",
                       !.Txids = IF blk = NoBlk THEN <<>> ELSE BlockTransactions(blk.id - 1)]

\* ChainService.handleGetBlockTxids, lines 335-352: the IDs of the block's
\* transactions in the block's order (transaction k has ID k).
handleGetBlockTxids(id) ==
    LET blk == fetchBlock(id)
    IN  IF blk = NoBlk THEN [NoWire EXCEPT !.Error = "NotFound"]
        ELSE [NoWire EXCEPT !.Error = "None", !.Txids = Transactions(blk)]

\* ChainService.handleGetBlockTxs on the block fetchBlock returns.
ServeGetBlockTxs(id, idxs) ==
    LET blk == fetchBlock(id)
    IN  handleGetBlockTxs([known |-> blk # NoBlk,
                           txs |-> IF blk = NoBlk THEN <<>> ELSE Transactions(blk),
                           TxIndexes |-> idxs])

\* What a call of the client returns: err, or the payload of its kind.
NoResult == [err |-> FALSE, Block |-> NoBlk, Txids |-> <<>>, Transactions |-> <<>>]
Failed == [NoResult EXCEPT !.err = TRUE]

\* ChainService.GetBlockTxs, lines 264-278, on the response resp to a request
\* for the indices idxs: the kind of answer (RpcAnswers) and the return value.
GetBlockTxsAnswer(resp, idxs) ==
    IF resp.transport \/ resp.Error # "None" THEN "err"
    ELSE IF Len(resp.Transactions) # Len(idxs) THEN "short"
    ELSE "ok"
GetBlockTxs(resp, idxs) ==
    IF GetBlockTxsAnswer(resp, idxs) = "ok"
    THEN [NoResult EXCEPT !.Transactions = resp.Transactions]
    ELSE Failed
\* ChainService.GetBlockTxids, lines 320-332.
GetBlockTxids(resp) ==
    IF resp.transport \/ resp.Error # "None" THEN Failed
    ELSE [NoResult EXCEPT !.Txids = resp.Txids]
\* ChainService.GetBlock, lines 366-373.
GetBlock(resp) ==
    IF resp.transport \/ resp.Error # "None" THEN Failed
    ELSE [NoResult EXCEPT !.Block = resp.Block]

\* One exchange.  stage: "sent", "answered", "returned" (the client call
\* returned), "done" (decodeXthinner reacted to what GetBlockTxs returned).
\* by: "handler" when this code answered, "peer" for any other answer.
NoExchange == [stage |-> "none", kind |-> "none", id |-> 0, TxIndexes |-> <<>>,
               peer |-> "none", by |-> "none", fetched |-> NoBlk,
               resp |-> NoWire, result |-> NoResult]
Exchanges ==
    {[NoExchange EXCEPT !.stage = "sent", !.kind = k, !.id = id,
                        !.TxIndexes = ix, !.peer = p] :
        k \in RequestKinds, id \in BlockIDs, p \in Peers,
        ix \in SeqsUpTo(0 .. 1, MaxIndexes)}
\* Answers of a peer that runs other code: any error code with any payload.
PeerAnswers ==
    {TransportError}
    \cup {[NoWire EXCEPT !.Error = e, !.Block = b, !.Txids = ids,
                         !.Transactions = ids] :
            e \in {"None", "NotFound", "BadRequest"}, b \in {NoBlk} \cup Blocks,
            ids \in SeqsUpTo({1}, MaxIndexes + 1)}

\* handleNewMessage, lines 231-250: this code serves the request.  A panic
\* in the handler kills the process; the client's SendRequest then fails.
ServeRequest ==
    /\ exchange.stage = "sent"
    /\ CanRead(inventoryLock)
    /\ LET r == ServeGetBlockTxs(exchange.id, exchange.TxIndexes)
           resp == CASE exchange.kind = "GetBlock" -> handleGetBlock(exchange.id)
                     [] exchange.kind = "GetBlockTxids" ->
                            handleGetBlockTxids(exchange.id)
                     [] OTHER ->
                            IF r.fault THEN TransportError
                            ELSE [NoWire EXCEPT !.Error = r.Error,
                                                !.Transactions = r.Transactions]
       IN  /\ exchange' = [exchange EXCEPT !.stage = "answered", !.by = "handler",
                                           !.fetched = fetchBlock(exchange.id),
                                           !.resp = resp]
           /\ crashed' = (exchange.kind = "GetBlockTxs" /\ r.fault)
    /\ UNCHANGED <<chain, maps, locks, thr, calls, cancelled, banscore, history,
                   faults, checkedOK, request, response, fetch,
                   side>>

\* The request went to a peer that runs other code.
PeerAnswersRequest ==
    /\ exchange.stage = "sent"
    /\ \E resp \in PeerAnswers :
         exchange' = [exchange EXCEPT !.stage = "answered", !.by = "peer",
                                      !.resp = resp]
    /\ UNCHANGED <<chain, maps, locks, thr, calls, cancelled, crashed, banscore,
                   history, faults, checkedOK, request, response, fetch,
                   side>>

\* The client call returns: GetBlock, GetBlockTxids or GetBlockTxs; the last
\* charges the peer for a wrong number of transactions (lines 273-276).
ClientReturns ==
    /\ exchange.stage = "answered"
    /\ LET answer == GetBlockTxsAnswer(exchange.resp, exchange.TxIndexes)
       IN  \/ /\ exchange.kind = "GetBlock"
              /\ exchange' = [exchange EXCEPT !.stage = "returned",
                                              !.result = GetBlock(exchange.resp)]
              /\ UNCHANGED banscore
           \/ /\ exchange.kind = "GetBlockTxids"
              /\ exchange' = [exchange EXCEPT !.stage = "returned",
                                              !.result = GetBlockTxids(exchange.resp)]
              /\ UNCHANGED banscore
           \/ /\ exchange.kind = "GetBlockTxs"
              /\ exchange' = [exchange EXCEPT !.stage = "returned",
                      !.result = GetBlockTxs(exchange.resp, exchange.TxIndexes)]
              /\ banscore' = IncreaseBanscore(banscore, exchange.peer,
                                              GetBlockTxsPenalty(answer), 0)
    /\ UNCHANGED <<chain, maps, locks, thr, calls, cancelled, crashed, history,
                   faults, checkedOK, request, response, fetch,
                   side>>

\* Server.decodeXthinner, lines 356-364: the caller that asked the relaying
\* peer of a block for the missing transactions charges it 34 on an error.
DecodeReacts ==
    /\ exchange.stage = "returned"
    /\ exchange.kind = "GetBlockTxs"
    /\ exchange' = [exchange EXCEPT !.stage = "done"]
    /\ banscore' = IF exchange.result.err
                   THEN IncreaseBanscore(banscore, exchange.peer, 34, 0)
                   ELSE banscore
    /\ UNCHANGED <<chain, maps, locks, thr, calls, cancelled, crashed, history,
                   faults, checkedOK, request, response, fetch,
                   side>>

\* ------------------------------------------------------------ fetchBlockTxids
\* Transaction IDs; a transaction is named by its ID.
TxIDs == 1 .. 2
\* Positions (from 0) at which the block's transactions differ from the
\* peer's txids, in ascending order: lines 390-395.
Missing(txs, txids) ==
    SelectSeq([i \in 1 .. Len(txs) |-> i - 1], LAMBDA k : txs[k + 1] # txids[k + 1])
\* Lines 403-405: blk.Transactions[missing[i]] = tx for each returned tx.
Patch(txs, missing, got) ==
    [i \in 1 .. Len(txs) |->
        IF \E j \in 1 .. Len(missing) : missing[j] = i - 1
        THEN got[CHOOSE j \in 1 .. Len(missing) : missing[j] = i - 1]
        ELSE txs[i]]
\* Server.fetchBlockTxids, lines 382-407, for a block with transactions txs,
\* the peer's answer to GetBlockTxids and its answer to GetBlockTxs.
fetchBlockTxids(txs, txidsResp, txsResp) ==
    LET txids == GetBlockTxids(txidsResp)
        missing == Missing(txs, txids.Txids)
        got == GetBlockTxs(txsResp, missing)
    IN  IF txids.err THEN Failed
        ELSE IF Len(txids.Txids) # Len(txs) THEN Failed
        ELSE IF missing = <<>> THEN Failed
        ELSE IF got.err THEN Failed
        ELSE [NoResult EXCEPT !.Transactions = Patch(txs, missing, got.Transactions)]

\* A call of fetchBlockTxids with what the peer will answer.  The block's
\* transactions and the peer's lists are at most MaxIndexes long.
NoFetch == [stage |-> "none", peer |-> "none", txs |-> <<>>, txidsResp |-> NoWire,
            txsResp |-> NoWire, out |-> NoResult]
TxidsAnswers ==
    {TransportError, [NoWire EXCEPT !.Error = "NotFound"]}
    \cup {[NoWire EXCEPT !.Error = "None", !.Txids = ids] :
            ids \in SeqsUpTo(TxIDs, MaxIndexes)}
TxsAnswers ==
    {TransportError, [NoWire EXCEPT !.Error = "BadRequest"]}
    \cup {[NoWire EXCEPT !.Error = "None", !.Transactions = t] :
            t \in SeqsUpTo(TxIDs, MaxIndexes)}
Fetches ==
    {[NoFetch EXCEPT !.stage = "called", !.peer = p, !.txs = t, !.txidsResp = a,
                     !.txsResp = b] :
        p \in Peers, t \in SeqsUpTo(TxIDs, MaxIndexes), a \in TxidsAnswers,
        b \in TxsAnswers}

\* The call runs and returns; GetBlockTxs inside it charges the peer for a
\* wrong number of transactions when the call gets that far.
FetchBlockTxids ==
    /\ fetch.stage = "called"
    /\ LET txids == GetBlockTxids(fetch.txidsResp)
           missing == Missing(fetch.txs, txids.Txids)
           asked == /\ ~txids.err
                    /\ Len(txids.Txids) = Len(fetch.txs)
                    /\ missing # <<>>
       IN  banscore' =
              IF asked
              THEN IncreaseBanscore(banscore, fetch.peer,
                       GetBlockTxsPenalty(GetBlockTxsAnswer(fetch.txsResp, missing)), 0)
              ELSE banscore
    /\ fetch' = [fetch EXCEPT !.stage = "returned",
                    !.out = fetchBlockTxids(fetch.txs, fetch.txidsResp, fetch.txsResp)]
    /\ UNCHANGED <<chain, maps, locks, thr, calls, cancelled, crashed, history,
                   faults, checkedOK, request, response, exchange,
                   side>>

\* ------------------------------------------------------------- decodeXthinner
\* Mempool.DecodeXthinner (line 354): the block with a nil transaction (0) at
\* every position the mempool could not fill, and those positions, ascending.
MissingIndices(txs) ==
    SelectSeq([i \in 1 .. Len(txs) |-> i - 1], LAMBDA k : txs[k + 1] = 0)
NoCharge == [q \in Peers |-> 0]

\* Lines 366-377: the loop over the connected peers conn from the k-th on.
\* later[q]: what q answers; asked: the peers asked so far; delta: the
\* behavioral score charged so far (GetBlockTxs charges, the loop does not).
\* The patch of lines 369-371 is the loop of lines 403-405.
RECURSIVE AskPeers(_, _, _, _, _, _, _)
AskPeers(txs, missing, later, conn, k, asked, delta) ==
    IF k > Len(conn)
    THEN [Transactions |-> txs, asked |-> asked, delta |-> delta]
    ELSE LET q == conn[k]
             got == GetBlockTxs(later[q], missing)
             charged == [delta EXCEPT ![q] = @ +
                            GetBlockTxsPenalty(GetBlockTxsAnswer(later[q], missing))]
         IN  IF ~got.err
             THEN [Transactions |-> Patch(txs, missing, got.Transactions),
                   asked |-> Append(asked, q), delta |-> charged]
             ELSE AskPeers(txs, missing, later, conn, k + 1, Append(asked, q),
                           charged)

\* A decodeXthinner that writes the i-th returned transaction to slot i.
decodeXthinnerPatchesFront(txs, p, first, later, conn) ==
    LET missing == MissingIndices(txs)
        got == GetBlockTxs(first, missing)
    IN  IF missing = <<>> \/ got.err
        THEN [Transactions |-> txs, asked |-> <<>>, delta |-> NoCharge]
        ELSE [Transactions |->
                  Patch(txs, [j \in 1 .. Len(missing) |-> j - 1], got.Transactions),
              asked |-> <<p>>, delta |-> NoCharge]

\* Server.decodeXthinner, lines 353-380, for the decoded block txs relayed by
\* p: first is p's answer to GetBlockTxs, later the answers of the connected
\* peers conn (in the order Peers() lists them).
decodeXthinner(txs, p, first, later, conn) ==
    LET missing == MissingIndices(txs)
        got == GetBlockTxs(first, missing)
    IN  IF missing = <<>>
        THEN [Transactions |-> txs, asked |-> <<>>, delta |-> NoCharge]
        ELSE IF ~got.err
        THEN [Transactions |-> Patch(txs, missing, got.Transactions),
              asked |-> <<p>>, delta |-> NoCharge]
        ELSE AskPeers(txs, missing, later, conn, 1, <<p>>,
                      [NoCharge EXCEPT ![p] =
                          GetBlockTxsPenalty(GetBlockTxsAnswer(first, missing)) + 34])

\* A call of decodeXthinner with what the peers will answer.
NoDecode == [stage |-> "none", peer |-> "none", txs |-> <<>>, first |-> NoWire,
             later |-> [q \in Peers |-> NoWire], conn |-> <<>>, out |-> <<>>,
             asked |-> <<>>]
\* Network().Peers(): the connected peers, each once, in any order.
ConnectedPeers ==
    {c \in SeqsUpTo(Peers, Cardinality(Peers)) :
        \A i, j \in 1 .. Len(c) : c[i] = c[j] => i = j}
HelperAnswers ==
    {TransportError}
    \cup {[NoWire EXCEPT !.Error = "None", !.Transactions = t] :
            t \in SeqsUpTo({1}, MaxIndexes)}
Decodes ==
    {[NoDecode EXCEPT !.stage = "called", !.peer = p, !.txs = t, !.first = a,
                      !.later = l, !.conn = c] :
        p \in Peers, t \in SeqsUpTo({0} \cup TxIDs, MaxIndexes), a \in TxsAnswers,
        l \in [Peers -> HelperAnswers], c \in ConnectedPeers}

\* The call runs and returns.
DecodeXthinner ==
    /\ decode.stage = "called"
    /\ LET r == decodeXthinner(decode.txs, decode.peer, decode.first,
                               decode.later, decode.conn)
       IN  /\ decode' = [decode EXCEPT !.stage = "returned",
                                       !.out = r.Transactions, !.asked = r.asked]
           /\ banscore' = AddDeltas(banscore, r.delta)
    /\ UNCHANGED <<chain, maps, locks, thr, calls, cancelled, crashed, history,
                   faults, checkedOK, request, response, exchange, fetch,
                   streams, shutdown>>

\* ---------------------------------------------------- chain service, streams
\* streams: one record per stream opened to this node, in the order opened.
\* peer: s.Conn().RemotePeer(); pc: where the stream's goroutine is
\* ("reading" at ReadMsg, "handling" between ReadMsg and WriteMsg, "reset"
\* after s.Reset(), "closed" after the return); queue: the requests the peer
\* wrote and the goroutine has not read; req: the request in hand; served:
\* the requests answered, in the order of the answers.  A request carries its
\* number n in the stream's arrival order.
NoStreams == <<>>
NoMsg == [n |-> 0, kind |-> "none", id |-> 0]
\* The kinds of request a peer can put on the wire: the three the switch of
\* line 231 knows, and a request whose Msg is none of them (or is not set).
WireKinds == RequestKinds \cup {"Unknown"}
Msgs(n) == [n : {n}, kind : WireKinds, id : {1, 2}]
\* The indices a GetBlockTxs request of the model asks for.
AskedIndexes == <<0>>

\* ChainService.HandleNewStream, lines 203-205, and the entry of
\* handleNewMessage, lines 207-212: a peer opens a stream, a goroutine of its
\* own starts to serve it.
HandleNewStream ==
    /\ ~crashed
    /\ Len(streams) < MaxStreams
    /\ \E p \in Peers :
         streams' = Append(streams, [peer |-> p, pc |-> "reading", queue |-> <<>>,
                                     req |-> NoMsg, sent |-> 0, served |-> <<>>])
    /\ UNCHANGED <<chain, maps, locks, thr, calls, cancelled, crashed, banscore,
                   history, faults, checkedOK, request, response, exchange,
                   fetch, decode, shutdown>>

\* The remote peer writes its next request to a stream.
PeerWrites(k) ==
    /\ ~crashed
    /\ streams[k].pc # "closed"
    /\ streams[k].sent < MaxRequests
    /\ \E m \in Msgs(streams[k].sent + 1) :
         streams' = [streams EXCEPT ![k].queue = Append(@, m), ![k].sent = @ + 1]
    /\ UNCHANGED <<chain, maps, locks, thr, calls, cancelled, crashed, banscore,
                   history, faults, checkedOK, request, response, exchange,
                   fetch, decode, shutdown>>

\* Lines 221-225: net.ReadMsg returns the next request of the stream.
ReadMsg(k) ==
    /\ ~crashed
    /\ streams[k].pc = "reading"
    /\ streams[k].queue # <<>>
    /\ streams' = [streams EXCEPT ![k].pc = "handling",
                                  ![k].req = Head(streams[k].queue),
                                  ![k].queue = Tail(@)]
    /\ UNCHANGED <<chain, maps, locks, thr, calls, cancelled, crashed, banscore,
                   history, faults, checkedOK, request, response, exchange,
                   fetch, decode, shutdown>>

\* Lines 227-250: the handler of the request's kind runs (fetchBlock under
\* inventoryLock.RLock) and the response is written; when the write fails the
\* stream is reset.  A panic in the handler kills the process.  The switch
\* has no default: for a request of another kind resp stays nil, nothing is
\* written and the loop goes back to ReadMsg.
HandleMsg(k) ==
    /\ ~crashed
    /\ streams[k].pc = "handling"
    /\ CanRead(inventoryLock)
    /\ LET m == streams[k].req
           r == ServeGetBlockTxs(m.id, AskedIndexes)
           err == CASE m.kind = "GetBlock" -> handleGetBlock(m.id).Error
                    [] m.kind = "GetBlockTxids" -> handleGetBlockTxids(m.id).Error
                    [] OTHER -> r.Error
       IN  IF m.kind \notin RequestKinds
           THEN /\ streams' = [streams EXCEPT ![k].pc = "reading",
                                               ![k].req = NoMsg]
                /\ UNCHANGED crashed
           ELSE IF m.kind = "GetBlockTxs" /\ r.fault
           THEN /\ crashed' = TRUE
                /\ UNCHANGED streams
           ELSE /\ \E written \in BOOLEAN :
                     streams' = [streams EXCEPT
                        ![k].pc = IF written THEN "reading" ELSE "reset",
                        ![k].req = NoMsg,
                        ![k].served = IF written
                                      THEN Append(@, [n |-> m.n, Error |-> err])
                                      ELSE @]
                /\ UNCHANGED crashed
    /\ UNCHANGED <<chain, maps, locks, thr, calls, cancelled, banscore,
                   history, faults, checkedOK, request, response, exchange,
                   fetch, decode, shutdown>>

\* Lines 215-225: the context is done, or ReadMsg fails (the peer closed the
\* stream, or it was reset): handleNewMessage returns and closes the stream.
StreamEnds(k) ==
    /\ ~crashed
    /\ streams[k].pc \in {"reading", "reset"}
    /\ streams' = [streams EXCEPT ![k].pc = "closed", ![k].queue = <<>>]
    /\ UNCHANGED <<chain, maps, locks, thr, calls, cancelled, crashed, banscore,
                   history, faults, checkedOK, request, response, exchange,
                   fetch, decode, shutdown>>

\* ------------------------------------------------------------- Server.Close
\* One call of Close.  pc: the line the call is at; fails: the collaborators
\* whose Close returns an error; closed: those whose Close was called; err:
\* the call returned an error.  mempool.Close returns nothing.
Collaborators == {"network", "ds", "blockchain", "mempool"}
NoShutdown == [pc |-> "none", fails |-> {}, closed |-> {}, err |-> FALSE]
Shutdowns ==
    {[NoShutdown EXCEPT !.pc = "cancelFunc", !.fails = f] :
        f \in SUBSET (Collaborators \ {"mempool"})}

\* Line 453: s.cancelFunc().
CloseCancel ==
    /\ shutdown.pc = "cancelFunc"
    /\ cancelled' = TRUE
    /\ shutdown' = [shutdown EXCEPT !.pc = "network"]
    /\ UNCHANGED <<chain, maps, locks, thr, calls, crashed, banscore, history,
                   faults, checkedOK, request, response, exchange, fetch, decode,
                   streams>>

\* Lines 454-463: the call after the Close of collaborator c, from which it
\* goes on to `next`; an error ends the call at once (lines 455, 458, 461).
CloseCollaborator(c, next) ==
    IF c \in shutdown.fails
    THEN [shutdown EXCEPT !.pc = "returned", !.err = TRUE, !.closed = @ \cup {c}]
    ELSE [shutdown EXCEPT !.pc = next, !.closed = @ \cup {c}]
\* Lines 454-456: s.network.Close().
CloseNetwork ==
    /\ shutdown.pc = "network"
    /\ shutdown' = CloseCollaborator("network", "ds")
    /\ UNCHANGED <<chain, maps, locks, thr, calls, cancelled, crashed, banscore,
                   history, faults, checkedOK, request, response, exchange,
                   fetch, decode, streams>>
\* Lines 457-459: s.ds.Close().
CloseDatastore ==
    /\ shutdown.pc = "ds"
    /\ shutdown' = CloseCollaborator("ds", "blockchain")
    /\ UNCHANGED <<chain, maps, locks, thr, calls, cancelled, crashed, banscore,
                   history, faults, checkedOK, request, response, exchange,
                   fetch, decode, streams>>
\* Lines 460-462: s.blockchain.Close().
CloseBlockchain ==
    /\ shutdown.pc = "blockchain"
    /\ shutdown' = CloseCollaborator("blockchain", "mempool")
    /\ UNCHANGED <<chain, maps, locks, thr, calls, cancelled, crashed, banscore,
                   history, faults, checkedOK, request, response, exchange,
                   fetch, decode, streams>>
\* Lines 463-464: s.mempool.Close(), return nil.
CloseMempool ==
    /\ shutdown.pc = "mempool"
    /\ shutdown' = CloseCollaborator("mempool", "returned")
    /\ UNCHANGED <<chain, maps, locks, thr, calls, cancelled, crashed, banscore,
                   history, faults, checkedOK, request, response, exchange,
                   fetch, decode, streams>>

\* ------------------------------------------------------------- specification
ServerInit ==
    /\ chain = <<>>
    /\ orphanBlocks = <<>>
    /\ activeInventory = <<>>
    /\ inflightRequests = {}
    /\ orphanLock = FreeLock
    /\ inventoryLock = FreeLock
    /\ inflightLock = FreeLock
    /\ thr = EmptyBag
    /\ calls = 0
    /\ cancelled = FALSE
    /\ crashed = FALSE
    /\ banscore = [p \in Peers |-> [b |-> 0, t |-> 0]]
    /\ connectCalls = [id \in BlockIDs |-> 0]
    /\ newBlockCalls = [id \in BlockIDs |-> 0]
    /\ getBlockCalls = [id \in BlockIDs |-> 0]
    /\ insertCalls = [id \in BlockIDs |-> 0]
    /\ finalizedCalls = [id \in BlockIDs |-> 0]
    /\ faults = 0
    /\ checkedOK = {}

\* The coordinator, with no chain-service request in hand.
Init ==
    /\ ServerInit
    /\ request = NoReq
    /\ response = NoResp
    /\ exchange = NoExchange
    /\ fetch = NoFetch
    /\ decode = NoDecode
    /\ streams = NoStreams
    /\ shutdown = NoShutdown

\* Every goroutine runs and the engine answers every submission: a step of a
\* goroutine at a given position that stays possible is taken.
Positions == {"pb_orphan", "pb_repair", "pb_insert", "pb_unorphan", "w_select",
              "w_delete", "w_orphans", "w_unlock", "rb_check", "rb_rlock",
              "rb_lock", "rb_get", "rb_fail", "rb_timer", "tm_fire"}
StepAt(pc) ==
    \E g \in Running :
        /\ g.pc = pc
        /\ \/ ProcessBlockOrphan(g)
           \/ ProcessBlockRepair(g)
           \/ ProcessBlockInsert(g)
           \/ ProcessBlockSubmit(g)
           \/ CallbackStatus(g)
           \/ WaiterDelete(g)
           \/ WaiterOrphans(g)
           \/ WaiterUnlock(g)
           \/ RequestBlockStep(g)

Next ==
    \/ HandleIncomingBlock
    \/ RequestBlock
    \/ \E g \in Running : ProcessBlockOrphan(g)
    \/ \E g \in Running : ProcessBlockRepair(g)
    \/ \E g \in Running : ProcessBlockInsert(g)
    \/ \E g \in Running : ProcessBlockSubmit(g)
    \/ \E g \in Running : CallbackStatus(g)
    \/ \E g \in Running : WaiterCtxDone(g)
    \/ \E g \in Running : WaiterDelete(g)
    \/ \E g \in Running : WaiterOrphans(g)
    \/ \E g \in Running : WaiterUnlock(g)
    \/ \E g \in Running : RequestBlockStep(g)
    \/ Close

Spec == Init /\ [][Next]_vars

FairSpec == Spec /\ \A pc \in Positions : WF_vars(StepAt(pc))

\* The chain service serving one GetBlockTxs request.
InitTxs ==
    /\ ServerInit
    /\ request \in Requests
    /\ response = NoResp
    /\ exchange = NoExchange
    /\ fetch = NoFetch
    /\ decode = NoDecode
    /\ streams = NoStreams
    /\ shutdown = NoShutdown

NextTxs == HandleGetBlockTxs

SpecTxs == InitTxs /\ [][NextTxs]_vars

\* One chain-service exchange against a node at rest.  The node's chain and
\* activeInventory are any the coordinator can leave behind: blocks 1 and 2
\* connected in order or not yet, blocks that passed CheckConnectBlock (block
\* 2 only on top of block 1) still in activeInventory.
ServerStates ==
    {st \in [chain : {<<>>, <<1>>, <<1, 2>>}, inv : SUBSET {1, 2}] :
        2 \in st.inv => st.chain # <<>>}
InitRpc ==
    /\ \E st \in ServerStates :
         /\ chain = st.chain
         /\ activeInventory = [id \in st.inv |-> [id |-> id, body |-> "full"]]
    /\ orphanBlocks = <<>>
    /\ inflightRequests = {}
    /\ orphanLock = FreeLock
    /\ inventoryLock = FreeLock
    /\ inflightLock = FreeLock
    /\ thr = EmptyBag
    /\ calls = 0
    /\ cancelled = FALSE
    /\ crashed = FALSE
    /\ banscore = [p \in Peers |-> [b |-> 0, t |-> 0]]
    /\ connectCalls = [id \in BlockIDs |-> 0]
    /\ newBlockCalls = [id \in BlockIDs |-> 0]
    /\ getBlockCalls = [id \in BlockIDs |-> 0]
    /\ insertCalls = [id \in BlockIDs |-> 0]
    /\ finalizedCalls = [id \in BlockIDs |-> 0]
    /\ faults = 0
    /\ checkedOK = {}
    /\ request = NoReq
    /\ response = NoResp
    /\ exchange \in Exchanges
    /\ fetch = NoFetch
    /\ decode = NoDecode
    /\ streams = NoStreams
    /\ shutdown = NoShutdown

NextRpc ==
    \/ ServeRequest
    \/ PeerAnswersRequest
    \/ ClientReturns
    \/ DecodeReacts

SpecRpc == InitRpc /\ [][NextRpc]_vars

\* One call of processBlock by handleIncomingBlock, from the call at line 243
\* to its return, against a node at rest.  decodeXthinner has returned and
\* has charged the peers; the call made with recheck = true is the one of
\* lines 280 and 283.  faults counts the failed answers since the call.
Callers ==
    UNION {{[pc |-> "pb_check", kind |-> "handle",
             blk |-> [id |-> id, body |-> d.body], peer |-> p,
             recheck |-> r, reqid |-> 0, ann |-> FALSE, decoded |-> d.delta] :
               id \in BlockIDs, r \in BOOLEAN, d \in DecodeResults(p)} :
           p \in Peers}
InitCall ==
    /\ \E st \in ServerStates :
         /\ chain = st.chain
         /\ activeInventory = [id \in st.inv |-> [id |-> id, body |-> "full"]]
    /\ \E c \in Callers :
         /\ thr = SetToBag({[pc |-> c.pc, kind |-> c.kind, blk |-> c.blk,
                             peer |-> c.peer, recheck |-> c.recheck,
                             reqid |-> c.reqid, ann |-> c.ann]})
         /\ banscore = AddDeltas([p \in Peers |-> [b |-> 0, t |-> 0]], c.decoded)
    /\ orphanBlocks = <<>>
    /\ inflightRequests = {}
    /\ orphanLock = FreeLock
    /\ inventoryLock = FreeLock
    /\ inflightLock = FreeLock
    /\ calls = 1
    /\ cancelled = FALSE
    /\ crashed = FALSE
    /\ connectCalls = [id \in BlockIDs |-> 0]
    /\ newBlockCalls = [id \in BlockIDs |-> 0]
    /\ getBlockCalls = [id \in BlockIDs |-> 0]
    /\ insertCalls = [id \in BlockIDs |-> 0]
    /\ finalizedCalls = [id \in BlockIDs |-> 0]
    /\ faults = 0
    /\ checkedOK = {}
    /\ request = NoReq
    /\ response = NoResp
    /\ exchange = NoExchange
    /\ fetch = NoFetch
    /\ decode = NoDecode
    /\ streams = NoStreams
    /\ shutdown = NoShutdown

NextCall ==
    \/ \E g \in Running : ProcessBlockEntry(g)
    \/ \E g \in Running : ProcessBlockOrphan(g)
    \/ \E g \in Running : ProcessBlockRepair(g)
    \/ \E g \in Running : ProcessBlockInsert(g)
    \/ \E g \in Running : ProcessBlockSubmit(g)

SpecCall == InitCall /\ [][NextCall]_vars

\* One call of fetchBlockTxids.
InitFetch ==
    /\ ServerInit
    /\ request = NoReq
    /\ response = NoResp
    /\ exchange = NoExchange
    /\ fetch \in Fetches
    /\ decode = NoDecode
    /\ streams = NoStreams
    /\ shutdown = NoShutdown

NextFetch == FetchBlockTxids

SpecFetch == InitFetch /\ [][NextFetch]_vars

\* One call of decodeXthinner.
InitDecode ==
    /\ ServerInit
    /\ request = NoReq
    /\ response = NoResp
    /\ exchange = NoExchange
    /\ fetch = NoFetch
    /\ decode \in Decodes
    /\ streams = NoStreams
    /\ shutdown = NoShutdown

NextDecode == DecodeXthinner

SpecDecode == InitDecode /\ [][NextDecode]_vars

\* The chain service serving the streams peers open, against a node at rest
\* with block 1 connected and block 2 in activeInventory.
InitStreams ==
    /\ \E st \in ServerStates :
         /\ st.chain = <<1>> /\ st.inv = {2}
         /\ chain = st.chain
         /\ activeInventory = [id \in st.inv |-> [id |-> id, body |-> "full"]]
    /\ orphanBlocks = <<>>
    /\ inflightRequests = {}
    /\ orphanLock = FreeLock
    /\ inventoryLock = FreeLock
    /\ inflightLock = FreeLock
    /\ thr = EmptyBag
    /\ calls = 0
    /\ cancelled = FALSE
    /\ crashed = FALSE
    /\ banscore = [p \in Peers |-> [b |-> 0, t |-> 0]]
    /\ connectCalls = [id \in BlockIDs |-> 0]
    /\ newBlockCalls = [id \in BlockIDs |-> 0]
    /\ getBlockCalls = [id \in BlockIDs |-> 0]
    /\ insertCalls = [id \in BlockIDs |-> 0]
    /\ finalizedCalls = [id \in BlockIDs |-> 0]
    /\ faults = 0
    /\ checkedOK = {}
    /\ request = NoReq
    /\ response = NoResp
    /\ exchange = NoExchange
    /\ fetch = NoFetch
    /\ decode = NoDecode
    /\ streams = NoStreams
    /\ shutdown = NoShutdown

NextStreams ==
    \/ HandleNewStream
    \/ \E k \in DOMAIN streams : PeerWrites(k)
    \/ \E k \in DOMAIN streams : ReadMsg(k)
    \/ \E k \in DOMAIN streams : HandleMsg(k)
    \/ \E k \in DOMAIN streams : StreamEnds(k)

SpecStreams == InitStreams /\ [][NextStreams]_vars

\* One call of Close on a node at rest whose blocks in activeInventory each
\* have a waiter at its select.
InitClose ==
    /\ \E st \in ServerStates :
         /\ chain = st.chain
         /\ activeInventory = [id \in st.inv |-> [id |-> id, body |-> "full"]]
         /\ thr = SetToBag({[pc |-> "w_select", kind |-> "waiter",
                             blk |-> [id |-> id, body |-> "full"],
                             peer |-> "none", recheck |-> FALSE, reqid |-> 0,
                             ann |-> FALSE] : id \in st.inv})
         /\ newBlockCalls = [id \in BlockIDs |-> IF id \in st.inv THEN 1 ELSE 0]
         /\ insertCalls = [id \in BlockIDs |-> IF id \in st.inv THEN 1 ELSE 0]
    /\ orphanBlocks = <<>>
    /\ inflightRequests = {}
    /\ orphanLock = FreeLock
    /\ inventoryLock = FreeLock
    /\ inflightLock = FreeLock
    /\ calls = 0
    /\ cancelled = FALSE
    /\ crashed = FALSE
    /\ banscore = [p \in Peers |-> [b |-> 0, t |-> 0]]
    /\ connectCalls = [id \in BlockIDs |-> 0]
    /\ getBlockCalls = [id \in BlockIDs |-> 0]
    /\ finalizedCalls = [id \in BlockIDs |-> 0]
    /\ faults = 0
    /\ checkedOK = {}
    /\ request = NoReq
    /\ response = NoResp
    /\ exchange = NoExchange
    /\ fetch = NoFetch
    /\ decode = NoDecode
    /\ streams = NoStreams
    /\ shutdown \in Shutdowns

NextClose ==
    \/ CloseCancel
    \/ CloseNetwork
    \/ CloseDatastore
    \/ CloseBlockchain
    \/ CloseMempool
    \/ \E g \in Running : WaiterCtxDone(g)

SpecClose == InitClose /\ [][NextClose]_vars

\* The select of a waiter whose context is done and whose callback stays
\* silent does not wait for ever.
FairSpecClose == SpecClose /\ WF_vars(\E g \in Running : WaiterCtxDone(g))

\* One submission in flight with orphans stored: block 1 passed
\* CheckConnectBlock on the empty chain and was submitted, its waiter is at the
\* select, and any of the children of block 1 arrived before it and is in
\* orphanBlocks with the peer that relayed it.  One more block may arrive.
OrphanStores ==
    UNION {[ids -> [id : Siblings, body : Bodies, peer : Peers]] :
              ids \in SUBSET Siblings}
InitResolve ==
    /\ chain = <<>>
    /\ \E st \in OrphanStores :
         /\ \A id \in DOMAIN st : st[id].id = id
         /\ orphanBlocks =
               [id \in DOMAIN st |->
                   [blk |-> [id |-> id, body |-> st[id].body],
                    relayingPeer |-> st[id].peer, firstSeen |-> 0]]
    /\ activeInventory = [id \in {1} |-> [id |-> id, body |-> "full"]]
    /\ thr = SetToBag({[pc |-> "w_select", kind |-> "waiter",
                        blk |-> [id |-> 1, body |-> "full"],
                        peer |-> "none", recheck |-> FALSE, reqid |-> 0,
                        ann |-> FALSE]})
    /\ newBlockCalls = [id \in AllIDs |-> IF id = 1 THEN 1 ELSE 0]
    /\ insertCalls = [id \in AllIDs |-> IF id = 1 THEN 1 ELSE 0]
    /\ checkedOK = {[id |-> 1, body |-> "full"]}
    /\ inflightRequests = {}
    /\ orphanLock = FreeLock
    /\ inventoryLock = FreeLock
    /\ inflightLock = FreeLock
    /\ calls = MaxCalls - 1
    /\ cancelled = FALSE
    /\ crashed = FALSE
    /\ banscore = [p \in Peers |-> [b |-> 0, t |-> 0]]
    /\ connectCalls = [id \in AllIDs |-> 0]
    /\ getBlockCalls = [id \in AllIDs |-> 0]
    /\ finalizedCalls = [id \in AllIDs |-> 0]
    /\ faults = 0
    /\ request = NoReq
    /\ response = NoResp
    /\ exchange = NoExchange
    /\ fetch = NoFetch
    /\ decode = NoDecode
    /\ streams = NoStreams
    /\ shutdown = NoShutdown

NextResolve ==
    \/ HandleIncomingBlock
    \/ \E g \in Running : ProcessBlockOrphan(g)
    \/ \E g \in Running : ProcessBlockRepair(g)
    \/ \E g \in Running : ProcessBlockInsert(g)
    \/ \E g \in Running : ProcessBlockSubmit(g)
    \/ \E g \in Running : CallbackStatus(g)
    \/ \E g \in Running : WaiterDelete(g)
    \/ \E g \in Running : WaiterOrphans(g)
    \/ \E g \in Running : WaiterUnlock(g)

SpecResolve == InitResolve /\ [][NextResolve]_vars

\* ===================================================================== claims
Connected(id) == \E k \in 1 .. Len(chain) : chain[k] = id
Deciding(id) ==
    \E w \in Running : w.kind = "waiter" /\ w.pc = "w_select" /\ w.blk.id = id

\* C1: over any interleaving of handleIncomingBlock calls, ConnectBlock is
\* invoked at most once per BlockID (the model has no chain reorganization).
C1_ConnectBlockOncePerID == \A id \in BlockIDs : connectCalls[id] <= 1

\* C2: a processBlock call for a BlockID that is already in activeInventory
\* is a no-op: while the engine is still deciding a submission of the id, no
\* step inserts the id again or calls engine.NewBlock for it again.
C2_DuplicateIsNoOp ==
    [][\A id \in DOMAIN activeInventory :
          Deciding(id) => newBlockCalls'[id] = newBlockCalls[id]]_vars

\* C3: every BlockID inserted into activeInventory is eventually removed from
\* it, unless the coordinator was shut down (or the process died).
C3_InventoryEntryRemoved ==
    \A id \in BlockIDs :
        (id \in DOMAIN activeInventory)
            ~> (id \notin DOMAIN activeInventory \/ cancelled \/ crashed)

\* C4: orphan then parent.  Block 2 (height 2) is stored as an orphan with a
\* sound body, block 1 (height 1) was submitted, finalized and connected and
\* its waiter is about to scan the orphans: then block 2 is submitted to the
\* engine (unless the coordinator was shut down or the process died).
OrphanThenParent ==
    /\ 2 \in DOMAIN orphanBlocks
    /\ orphanBlocks[2].blk.body = "full"
    /\ chain = <<1>>
    /\ \E w \in Running : /\ w.kind = "waiter" /\ w.blk.id = 1
                          /\ w.pc \in {"w_delete", "w_orphans"}
C4_OrphanResubmitted ==
    OrphanThenParent ~> (newBlockCalls[2] >= 1 \/ cancelled \/ crashed)

\* C5: a BlockID is never in orphanBlocks and activeInventory at the same
\* time, and never in activeInventory once it is connected.
C5_AtMostOnePlace ==
    \A id \in BlockIDs :
        /\ ~(id \in DOMAIN orphanBlocks /\ id \in DOMAIN activeInventory)
        /\ ~(id \in DOMAIN activeInventory /\ Connected(id))

\* C6: every block in activeInventory is one for which a processBlock call
\* got nil from CheckConnectBlock, with exactly that content, stored under its
\* own id; so its transactions match the header and it breaks no rule.
C6_InventoryPassedCheck ==
    \A id \in DOMAIN activeInventory :
        /\ activeInventory[id] \in checkedOK
        /\ activeInventory[id].id = id
        /\ activeInventory[id].body = "full"
        /\ Sound(id)
\* An orphan with a colliding body was stored, re-entered by the waiter of its
\* parent, repaired by its relaying peer, rechecked and inserted.
C6_Witness ==
    \E g \in Running :
        /\ g.kind = "waiter" /\ g.pc = "pb_unorphan" /\ g.recheck
        /\ g.blk.id \in DOMAIN activeInventory
        /\ activeInventory[g.blk.id] = g.blk

\* C7: when requestBlock is called twice concurrently for one BlockID,
\* exactly one GetBlock RPC is issued for it.
TwoRequests(id) ==
    \E g \in Running :
        /\ g.kind = "request" /\ g.reqid = id
        /\ \/ CopiesIn(g, thr) >= 2
           \/ \E h \in Running \ {g} : h.kind = "request" /\ h.reqid = id
C7_OneGetBlock ==
    \A id \in BlockIDs : TwoRequests(id) ~> (getBlockCalls[id] = 1)

\* C8: a requestBlock call that finds its BlockID absent from
\* inflightRequests inserts it, and every BlockID in inflightRequests is
\* eventually removed, shut down or not.
PastGuard(id) ==
    \E g \in Running : g.kind = "request" /\ g.reqid = id /\ g.pc = "rb_rlock"
InRange(req) ==
    \A i \in 1 .. Len(req.TxIndexes) : req.TxIndexes[i] < Len(req.txs)
C9_PositionPreserved ==
    (response # NoResp /\ request.known /\ InRange(request)) =>
        /\ ~response.fault
        /\ response.Error = "None"
        /\ Len(response.Transactions) = Len(request.TxIndexes)
        /\ \A i \in 1 .. Len(request.TxIndexes) :
              response.Transactions[i] = request.txs[request.TxIndexes[i] + 1]

\* C10: for a request on a known block, also one without transactions, that
\* holds an index at or above the number of the block's transactions, the
\* handler answers BadRequest and does not fault.
C10_OutOfRangeIsBadRequest ==
    (response # NoResp /\ request.known /\ ~InRange(request)) =>
        /\ ~response.fault
        /\ response.Error = "BadRequest"

\* C11: for each request kind, a request for a BlockID that is neither in
\* activeInventory nor connected is answered NotFound with no payload; the
\* client returns an error and no payload for every response whose error is
\* not None.
Unknown(id) == id \notin DOMAIN activeInventory /\ ~OnChain(id)
C11_NotFoundAndClientError ==
    /\ (exchange.by = "handler" /\ Unknown(exchange.id)) =>
           exchange.resp = [NoWire EXCEPT !.Error = "NotFound"]
    /\ (/\ exchange.stage \in {"returned", "done"}
        /\ ~exchange.resp.transport
        /\ exchange.resp.Error # "None") => exchange.result = Failed
\* This code answered a GetBlockTxids for an unknown block, the client returned.
C11_Witness ==
    /\ exchange.stage = "returned" /\ exchange.by = "handler"
    /\ exchange.kind = "GetBlockTxids" /\ Unknown(exchange.id)
    /\ exchange.resp.Error = "NotFound" /\ exchange.result = Failed

ShortAnswer ==
    /\ exchange.kind = "GetBlockTxs"
    /\ ~exchange.resp.transport
    /\ exchange.resp.Error = "None"
    /\ Len(exchange.resp.Transactions) # Len(exchange.TxIndexes)
C14_ShortAnswerCosts50 ==
    (exchange.stage = "returned" /\ ShortAnswer) =>
        /\ banscore = [q \in Peers |->
                          IF q = exchange.peer THEN [b |-> 50, t |-> 0]
                          ELSE [b |-> 0, t |-> 0]]
        /\ exchange.result = Failed
C14_Witness ==
    /\ exchange.stage = "returned" /\ ShortAnswer
    /\ Len(exchange.resp.Transactions) > 0
    /\ banscore[exchange.peer].b = 50

\* C15: when the peer that announced a block answers the request for its
\* missing transactions with an error response (NotFound or BadRequest), its
\* behavioral score grows by 50.
C15_ErrorResponseCosts50 ==
    (/\ exchange.stage = "done"
     /\ ~exchange.resp.transport
     /\ exchange.resp.Error \in {"NotFound", "BadRequest"}) =>
        banscore[exchange.peer].b = 50

\* C13: when fetchBlockTxids returns a patched block without error, the ID
\* of the block's transaction at every position equals the txid the peer
\* returned for that position, whatever transactions the peer sent.
C13_PatchedMatchesTxids ==
    (fetch.stage = "returned" /\ ~fetch.out.err) =>
        /\ Len(fetch.out.Transactions) = Len(fetch.txidsResp.Txids)
        /\ \A i \in 1 .. Len(fetch.out.Transactions) :
              fetch.out.Transactions[i] = fetch.txidsResp.Txids[i]

\* The step in which the repair of lines 272-286 fails for goroutine g.
RepairFails(g) ==
    /\ g.pc = "pb_repair" /\ ~g.recheck
    /\ faults' = faults + 1
\* The processBlock call of g returned to the network without touching the
\* maps or the engine.
ReturnedUntouched(g) ==
    /\ thr' = Without(g)
    /\ ~crashed'
    /\ UNCHANGED <<chain, maps, history>>

\* C16: when processBlock(recheck = false) gets ErrInvalidTxRoot and the
\* repair fails, the originator's behavioral score grows by exactly 34, no
\* other score changes, the call returns, NewBlock is not called and the
\* block enters neither activeInventory nor orphanBlocks.
C16_FailedRepairCosts34 ==
    [][\A g \in Running :
          RepairFails(g) =>
              /\ banscore' = IncreaseBanscore(banscore, g.peer, 34, 0)
              /\ ReturnedUntouched(g)]_vars

\* C17: for one announced block whose decode has missing transactions, whose
\* originator fails to supply them (decodeXthinner has charged the 34) and
\* whose tx root then fails, the failed-repair delta of 34 is not charged to
\* the originator a second time: the failing repair adds at most the 50 of
\* a wrong number of transactions.
C17_FailedRepairChargedOnce ==
    [][\A g \in Running :
          (RepairFails(g) /\ banscore[g.peer].b >= 34) =>
              banscore'[g.peer].b - banscore[g.peer].b \in {0, 50}]_vars

\* C18: when processBlock(recheck = false) gets a RuleError that is neither
\* ErrInvalidTxRoot nor ErrDoesNotConnect, the relaying peer's behavioral
\* score grows by exactly 101, no repair is attempted, the call returns and
\* neither the maps nor the engine are touched.
C18_InvalidBlockBans ==
    [][\A g \in Running :
          (/\ g.pc = "pb_check" /\ ~g.recheck
           /\ CheckConnectBlock(g.blk)
                  \in RuleErrors \ {"ErrInvalidTxRoot", "ErrDoesNotConnect"}) =>
              /\ banscore' = IncreaseBanscore(banscore, g.peer, 101, 0)
              /\ faults' = faults
              /\ ReturnedUntouched(g)]_vars
\* A call returned and left exactly the ban charge on a peer.
C18_Witness ==
    /\ thr = EmptyBag /\ ~crashed /\ faults = 0
    /\ \E p \in Peers : banscore[p] = [b |-> 101, t |-> 0]
    /\ orphanBlocks = <<>> /\ \A id \in BlockIDs : newBlockCalls[id] = 0

\* C19: when processBlock(recheck = false) gets ErrDoesNotConnect, the
\* relaying peer gets exactly 0 behavioral and 10 transient, the call
\* returns, and the block is neither stored nor sent to the engine.
C19_RaceCosts10Transient ==
    [][\A g \in Running :
          (/\ g.pc = "pb_check" /\ ~g.recheck
           /\ CheckConnectBlock(g.blk) = "ErrDoesNotConnect") =>
              /\ banscore' = IncreaseBanscore(banscore, g.peer, 0, 10)
              /\ faults' = faults
              /\ ReturnedUntouched(g)]_vars
\* A call for a block at the height of the tip returned with the charge.
C19_Witness ==
    /\ thr = EmptyBag /\ ~crashed /\ chain # <<>>
    /\ \E p \in Peers : banscore[p].t = 10
    /\ orphanBlocks = <<>> /\ \A id \in BlockIDs : newBlockCalls[id] = 0

\* C20: a processBlock call made with recheck = true does not recurse again
\* and returns: every call chain ends.
InRecheck ==
    \E g \in Running :
        /\ g.recheck
        /\ g.pc \in {"pb_orphan", "pb_repair", "pb_insert", "pb_unorphan"}
C20_RecheckChainEnds ==
    /\ [](~\E g \in Running : g.recheck /\ g.pc = "pb_repair")
    /\ InRecheck ~> (~InRecheck \/ crashed)

\* Goroutine g takes the step: one copy of it leaves its position.
Steps(g) == CopiesIn(g, thr') < CopiesIn(g, thr)
\* Goroutine h appears with the step.
Appears(h) == CopiesIn(h, thr') > CopiesIn(h, thr)
\* The step in which the relaying peer repairs the block of g (lines 273 and
\* 284) and the patched block passes the CheckConnectBlock of the recursion.
RepairPasses(g) ==
    /\ g.pc = "pb_repair" /\ ~g.recheck /\ Steps(g)
    /\ \E b \in Bodies :
         Appears([g EXCEPT !.blk = [id |-> g.blk.id, body |-> b],
                           !.recheck = TRUE, !.pc = "pb_insert"])
Rechecked ==
    \E g \in Running : g.recheck /\ g.pc \in {"pb_insert", "pb_unorphan"}

\* C21: when the first CheckConnectBlock returns ErrInvalidTxRoot, the
\* relaying peer supplies the transactions and the patched block passes the
\* re-check: no ban score changes, the call made with recheck = true does
\* not recurse again, and it submits the block to the engine, once.
C21_CollisionRepaired ==
    /\ [][\A g \in Running : RepairPasses(g) =>
             /\ banscore' = banscore
             /\ newBlockCalls' = newBlockCalls]_vars
    /\ [][\A g \in Running :
             (g.recheck /\ g.pc = "pb_unorphan" /\ Steps(g)) =>
                 newBlockCalls' = [newBlockCalls EXCEPT ![g.blk.id] = @ + 1]]_vars
    /\ [](~\E g \in Running : g.recheck /\ g.pc = "pb_repair")
    /\ Rechecked ~> (~Rechecked \/ crashed)

\* The relaying peer's answer to decodeXthinner's request.
FirstAnswer == GetBlockTxsAnswer(decode.first, MissingIndices(decode.txs))
NoScore == [q \in Peers |-> [b |-> 0, t |-> 0]]

\* C22: when the decoder reports missing indices and GetBlockTxs from the
\* relaying peer succeeds, slot missing[i] holds the i-th returned
\* transaction for every i, every other slot is as it was, no other peer was
\* asked and no ban score changed.
C22_MissRepairedByOriginator ==
    (/\ decode.stage = "returned"
     /\ MissingIndices(decode.txs) # <<>>
     /\ FirstAnswer = "ok") =>
        LET missing == MissingIndices(decode.txs)
        IN  /\ Len(decode.out) = Len(decode.txs)
            /\ \A i \in 1 .. Len(missing) :
                  decode.out[missing[i] + 1] = decode.first.Transactions[i]
            /\ \A k \in 1 .. Len(decode.txs) :
                  decode.txs[k] # 0 => decode.out[k] = decode.txs[k]
            /\ decode.asked = <<decode.peer>>
            /\ banscore = NoScore
\* The second of two slots was missing and the relaying peer filled it, with
\* other peers connected.
C22_Witness ==
    /\ decode.stage = "returned" /\ FirstAnswer = "ok"
    /\ Len(decode.txs) = 2 /\ decode.txs[1] # 0 /\ decode.txs[2] = 0
    /\ decode.out = <<decode.txs[1], decode.first.Transactions[1]>>
    /\ Len(decode.conn) = 2

\* C23: a peer other than the relaying peer that is asked for the missing
\* transactions never has its ban score changed, whatever it answers.
C23_HelpersNeverCharged ==
    decode.stage = "returned" =>
        \A q \in Peers \ {decode.peer} : banscore[q] = [b |-> 0, t |-> 0]

\* The streams on which a request of peer p is being served.
Serving(p) ==
    {k \in DOMAIN streams : streams[k].peer = p /\ streams[k].pc = "handling"}

\* C24: each stream's requests are answered one at a time in arrival order
\* (an answered request is the next in the stream's order, and the requests
\* not yet read come after the one in hand), and at any time at most one
\* request of a peer is being served, over all the streams of that peer.
C24_OneRequestPerPeer ==
    /\ \A k \in DOMAIN streams :
         /\ \A i \in 1 .. Len(streams[k].served) :
               i > 1 => streams[k].served[i].n > streams[k].served[i - 1].n
         /\ streams[k].pc = "handling" =>
               /\ \A i \in 1 .. Len(streams[k].served) :
                     streams[k].served[i].n < streams[k].req.n
               /\ \A i \in 1 .. Len(streams[k].queue) :
                     streams[k].queue[i].n > streams[k].req.n
    /\ \A p \in Peers : Cardinality(Serving(p)) <= 1

\* C25: Close fires the root cancellation before it closes any collaborator,
\* and it returns only after network, datastore, blockchain and mempool have
\* all been closed, also when the Close of one of them returns an error.
C25_CloseClosesAll ==
    /\ shutdown.closed # {} => cancelled
    /\ shutdown.pc = "returned" => shutdown.closed = Collaborators

\* C26: no goroutine acquires a coordinator lock while it holds one: it does
\* not hold two of them at a time and it does not acquire, for reading or
\* writing, the lock it holds (so none blocks for ever on its own lock).
\* This covers the waiter that re-enters processBlock and requestBlock.
C26_NoLockWhileHolding ==
    \A g \in Running : Wants(g) # {} => Holds(g) = {}

\* C27: no goroutine holds a coordinator lock while it is in a call that may
\* suspend: CheckConnectBlock, engine.NewBlock, a chain-service RPC, a nested
\* processBlock.
C27_NoLockAcrossSuspension ==
    \A g \in Running : Suspends(g) => Holds(g) = {}

\* C28: for every BlockID, each engine.NewBlock call comes after an
\* insertion into activeInventory, each StatusFinalized notification after a
\* NewBlock call, and each ConnectBlock call after a StatusFinalized
\* notification of its own.
C28_SubmissionOrder ==
    \A id \in BlockIDs :
        /\ newBlockCalls[id] <= insertCalls[id]
        /\ finalizedCalls[id] <= newBlockCalls[id]
        /\ connectCalls[id] <= finalizedCalls[id]
\* A block went through all four events and is connected.
C28_Witness ==
    \E id \in BlockIDs :
        /\ insertCalls[id] = 1 /\ newBlockCalls[id] = 1
        /\ finalizedCalls[id] = 1 /\ connectCalls[id] = 1
        /\ Connected(id)

\* A requestBlock call for id has not returned.
Requesting(id) == \E g \in Running : g.kind = "request" /\ g.reqid = id

\* C29: every requestBlock call returns (unless the process died), and a call
\* that found its BlockID absent from inflightRequests issues the GetBlock
\* for it.
C29_RequestBlockTerminates ==
    \A id \in BlockIDs :
        /\ Requesting(id) ~> (~Requesting(id) \/ crashed)
        /\ PastGuard(id) ~> (getBlockCalls[id] >= 1 \/ crashed)

\* The step in which the GetBlock of goroutine g fails (line 433).
GetBlockFails(g) ==
    /\ g.kind = "request" /\ g.pc = "rb_get" /\ Steps(g)
    /\ Appears([g EXCEPT !.pc = "rb_fail"])
\* A requestBlock call for id starts while id is not in inflightRequests, as
\* it does after a failed call has removed the id.
StartsAbsent(id) ==
    /\ id \notin inflightRequests
    /\ \E g \in Running : g.kind = "request" /\ g.reqid = id /\ g.pc = "rb_check"

C31_FallbackNeverFaults ==
    [][\A g \in Running : RepairFails(g) =>
          /\ ~crashed'
          /\ \/ thr' = Without(g)
             \/ \E h \in BagToSet(thr') :
                   /\ h.recheck /\ h.peer = g.peer /\ h.blk.id = g.blk.id
                   /\ thr' = With(Without(g), h)]_vars

\* A processBlock call got OrphanBlockError and has not returned.
StoringOrphan == \E g \in Running : g.pc = "pb_orphan"

\* C32: a processBlock call that got OrphanBlockError stores the entry
\* {block, relayingPeer, firstSeen = now} under the block's id and returns,
\* with no ban score changed, activeInventory and inflightRequests as they
\* were and no NewBlock call.
C32_OrphanStored ==
    /\ [][\A g \in Running : (g.pc = "pb_orphan" /\ Steps(g)) =>
             /\ g.blk.id \in DOMAIN orphanBlocks'
             /\ orphanBlocks'[g.blk.id] =
                    [blk |-> g.blk, relayingPeer |-> g.peer, firstSeen |-> Now]
             /\ thr' = With(Without(g), AfterReturn(g))
             /\ UNCHANGED <<banscore, activeInventory, inflightRequests,
                            newBlockCalls>>]_vars
    /\ StoringOrphan ~> (~StoringOrphan \/ crashed)

\* The step in which the waiter g receives StatusRejected on its callback:
\* it leaves the select for line 333 and no StatusFinalized is recorded.
Rejected(g) ==
    /\ g.pc = "w_select" /\ Steps(g)
    /\ Appears([g EXCEPT !.pc = "w_delete"])
    /\ finalizedCalls' = finalizedCalls
\* The step in which the waiter g completes lines 333-335.
Deletes(g) ==
    /\ g.pc = "w_delete" /\ Steps(g)
    /\ Appears([g EXCEPT !.pc = "w_orphans", !.ann = FALSE])

\* C33: a waiter that receives StatusRejected calls no ConnectBlock, then and
\* in every later step of its own, and its next completed step removes the
\* block from activeInventory.
C33_RejectedNotConnected ==
    [][\A g \in Running :
          /\ Rejected(g) => UNCHANGED <<chain, connectCalls>>
          /\ Deletes(g) => g.blk.id \notin DOMAIN activeInventory'
          /\ (g.kind = "waiter" /\ g.pc # "w_select" /\ Steps(g)) =>
                 UNCHANGED <<chain, connectCalls>>]_vars
\* A block was submitted once and rejected: its waiter is past line 335, the
\* block is out of activeInventory and was never connected.
C33_Witness ==
    \E id \in BlockIDs :
        /\ newBlockCalls[id] = 1 /\ finalizedCalls[id] = 0
        /\ connectCalls[id] = 0 /\ ~Connected(id)
        /\ id \notin DOMAIN activeInventory
        /\ \A g \in Running : g.blk.id = id =>
               g.kind = "waiter" /\ g.pc \in {"w_orphans", "w_unlock"}
        /\ \E g \in Running : g.blk.id = id

\* The step in which the waiter g finds a stored orphan in its scan and calls
\* processBlock for it (line 341).
ReEnters(g) ==
    /\ g.pc = "w_orphans" /\ Steps(g)
    /\ thr' # Without(g)

\* C34: the waiter calls processBlock for a stored orphan only after a
\* StatusFinalized notification for its own block, which is one below the
\* orphan.
C34_OrphansOnFinalizeOnly ==
    [][\A g \in Running : ReEnters(g) =>
          /\ finalizedCalls[g.blk.id] >= 1
          /\ \E id \in DOMAIN orphanBlocks :
                Height(id) = Height(g.blk.id) + 1]_vars

\* The scores of every peer but p stay as they are.
OnlyCharges(p) == \A q \in Peers \ {p} : banscore'[q] = banscore[q]
\* The goroutine h is a processBlock call for the stored orphan id, at any of
\* the positions the entry of processBlock leads to.
CallFor(h, id) ==
    /\ h.kind = "waiter"
    /\ h.blk.id = id
    /\ h.peer = orphanBlocks[id].relayingPeer
    /\ h.pc \in {"pb_orphan", "pb_repair", "pb_insert", "w_unlock"}
    /\ h.pc = "pb_repair" => ~h.recheck

\* C35: the scan of a waiter calls processBlock for one stored orphan at most,
\* with the peer of its entry and recheck = false; the scores the call changes,
\* then and in its later steps, are those of that peer; and when the call has
\* returned the waiter ends without a second scan.
C35_OneOrphanPerResolution ==
    [][\A g \in Running :
          /\ ReEnters(g) =>
                \E id \in NextOrphans(g.blk) :
                    /\ \E h \in BagToSet(thr') :
                          CallFor(h, id) /\ thr' = With(Without(g), h)
                    /\ OnlyCharges(orphanBlocks[id].relayingPeer)
          /\ (g.kind = "waiter" /\ g.pc \in InProcessBlock /\ Steps(g)) =>
                /\ OnlyCharges(g.peer)
                /\ \A h \in BagToSet(thr') :
                      (h.kind = "waiter" /\ h.blk.id = g.blk.id) =>
                          h.peer = g.peer
          /\ (g.pc = "w_unlock" /\ Steps(g)) => thr' = Without(g)]_vars
\* Two orphans one above the resolved block were stored by different peers,
\* one of them has been re-entered and charged, the other's peer has not been,
\* and the other orphan is still stored.
C35_Witness ==
    /\ Siblings \subseteq DOMAIN orphanBlocks
    /\ \E g \in Running, id \in Siblings :
         /\ g.kind = "waiter" /\ g.pc = "w_unlock" /\ g.blk.id = id
         /\ g.peer = orphanBlocks[id].relayingPeer
         /\ banscore[g.peer].b > 0
         /\ \A q \in Peers \ {g.peer} : banscore[q] = [b |-> 0, t |-> 0]
         /\ \E other \in Siblings \ {id} :
               orphanBlocks[other].relayingPeer # g.peer

\* A waiter is at its select.
Pending == \E g \in Running : g.kind = "waiter" /\ g.pc = "w_select"

\* C36: with the root context done and nothing sent on its callback, a waiter
\* at its select ends; the step in which it ends calls no ConnectBlock, scans
\* no orphan and leaves activeInventory, its own entry included, as it was.
C36_CancelledWaiterReturns ==
    /\ [][\A g \in Running :
             (g.kind = "waiter" /\ g.pc = "w_select" /\ Steps(g)
                 /\ finalizedCalls' = finalizedCalls
                 /\ ~Appears([g EXCEPT !.pc = "w_delete"])) =>
                 /\ cancelled
                 /\ thr' = Without(g)
                 /\ g.blk.id \in DOMAIN activeInventory'
                 /\ UNCHANGED <<chain, connectCalls, activeInventory,
                                orphanBlocks, orphanLock, banscore,
                                newBlockCalls, insertCalls>>]_vars
    /\ (cancelled /\ Pending) ~> ~Pending
\* The context is done, every waiter has returned, and the entries of their
\* blocks are still in activeInventory, unconnected.
C36_Witness ==
    /\ cancelled
    /\ thr = EmptyBag
    /\ activeInventory # <<>>
    /\ \A id \in DOMAIN activeInventory :
          newBlockCalls[id] = 1 /\ connectCalls[id] = 0 /\ ~Connected(id)

\* The requests the goroutine of stream k has read and is done with.
Handled(k) ==
    streams[k].sent - Len(streams[k].queue)
        - (IF streams[k].pc = "handling" THEN 1 ELSE 0)
\* The responses written on stream k for request n.
ResponsesTo(k, n) ==
    {i \in 1 .. Len(streams[k].served) : streams[k].served[i].n = n}

\* C37: on every stream being served, each request read and done with has
\* exactly one response, except the last one when the stream was reset for
\* it; and a stream that was reset is read no more.
C37_OneResponsePerRequest ==
    /\ [](\A k \in DOMAIN streams :
             streams[k].pc \in {"reading", "handling", "reset"} =>
                 \A n \in 1 .. Handled(k) :
                     \/ Cardinality(ResponsesTo(k, n)) = 1
                     \/ /\ streams[k].pc = "reset" /\ n = Handled(k)
                        /\ ResponsesTo(k, n) = {})
    /\ [][\A k \in DOMAIN streams :
             streams[k].pc = "reset" =>
                 streams'[k].pc \in {"reset", "closed"}]_vars

\* C38: an entry leaves orphanBlocks only when its block is connected: no
\* step removes the entry of a block that is not on the chain.
C38_OrphanKeptUntilConnected ==
    [][\A id \in DOMAIN orphanBlocks :
          id \notin DOMAIN orphanBlocks' => Connected(id)']_vars

C40_OrphanEntryStable ==
    [][\A id \in DOMAIN orphanBlocks \cap DOMAIN orphanBlocks' :
          /\ orphanBlocks'[id].firstSeen = orphanBlocks[id].firstSeen
          /\ orphanBlocks'[id].relayingPeer = orphanBlocks[id].relayingPeer]_vars

====
